---------------------------- MODULE Spec2Model ----------------------------
(***************************************************************************)
(* A model of the RAG backend: PDFProcessor.chunk_text, the OllamaClient   *)
(* calls with their pre-checks and retry loop, RAGService.add_documents,   *)
(* RAGService.chat_with_rag and the session history, and the FastAPI       *)
(* handlers that drive them.                                               *)
(*                                                                         *)
(* Strings are sequences of one-character strings, so that split, strip,   *)
(* int() and the f-string formatting are computed as Python computes them. *)
(***************************************************************************)
EXTENDS Integers, Sequences, FiniteSets, TLC

(***************************************************************************)
(* Python string primitives                                                *)
(***************************************************************************)

\* characters matched by \s and removed by str.strip()
WhiteSpace == {" ", "\n"}

\* characters accepted by int() as decimal digits
DigitChars == {"0", "1", "2", "3", "4", "5", "6", "7", "8", "9"}

DigitValue(c) ==
    CASE c = "0" -> 0 [] c = "1" -> 1 [] c = "2" -> 2 [] c = "3" -> 3
      [] c = "4" -> 4 [] c = "5" -> 5 [] c = "6" -> 6 [] c = "7" -> 7
      [] c = "8" -> 8 [] c = "9" -> 9

DigitOf(d) ==
    CASE d = 0 -> "0" [] d = 1 -> "1" [] d = 2 -> "2" [] d = 3 -> "3"
      [] d = 4 -> "4" [] d = 5 -> "5" [] d = 6 -> "6" [] d = 7 -> "7"
      [] d = 8 -> "8" [] d = 9 -> "9"

\* s[from:] for 1-based from
Drop(s, n) == SubSeq(s, n + 1, Len(s))

\* s[:n]
Take(s, n) == SubSeq(s, 1, n)

\* s.startswith(pat) at 1-based position i
MatchAt(s, pat, i) ==
    /\ i + Len(pat) - 1 <= Len(s)
    /\ \A k \in 1..Len(pat) : s[i + k - 1] = pat[k]

\* s.find(pat) as a 1-based position, 0 when pat does not occur
Find(s, pat) ==
    LET hits == {i \in 1..Len(s) : MatchAt(s, pat, i)}
    IN  IF hits = {} THEN 0 ELSE CHOOSE i \in hits : \A j \in hits : i <= j

\* pat in s
Contains(s, pat) == Find(s, pat) # 0

RECURSIVE LStrip(_)
LStrip(s) ==
    IF s # <<>> /\ Head(s) \in WhiteSpace THEN LStrip(Tail(s)) ELSE s

RECURSIVE RStrip(_)
RStrip(s) ==
    IF s # <<>> /\ s[Len(s)] \in WhiteSpace THEN RStrip(Take(s, Len(s) - 1)) ELSE s

\* s.strip()
Strip(s) == RStrip(LStrip(s))

\* re.sub(r'\s+', ' ', s): every maximal run of whitespace becomes one space
RECURSIVE CollapseSpace(_)
CollapseSpace(s) ==
    IF s = <<>> THEN <<>>
    ELSE IF Head(s) \in WhiteSpace
         THEN <<" ">> \o CollapseSpace(LStrip(s))
         ELSE <<Head(s)>> \o CollapseSpace(Tail(s))

\* s.split(sep): the pieces between the non-overlapping occurrences of sep,
\* scanned left to right
RECURSIVE Split(_, _)
Split(s, sep) ==
    LET i == Find(s, sep)
    IN  IF i = 0 THEN <<s>>
        ELSE <<Take(s, i - 1)>> \o Split(Drop(s, i + Len(sep) - 1), sep)

\* s.split(sep, 1): at most one split
SplitOnce(s, sep) ==
    LET i == Find(s, sep)
    IN  IF i = 0 THEN <<s>>
        ELSE <<Take(s, i - 1), Drop(s, i + Len(sep) - 1)>>

\* s.split(): the maximal runs of non-whitespace characters
RECURSIVE SplitWords(_)
SplitWords(s) ==
    LET t == LStrip(s)
        ends == {i \in 1..Len(t) : t[i] \in WhiteSpace}
        e == IF ends = {} THEN Len(t) + 1
             ELSE CHOOSE i \in ends : \A j \in ends : i <= j
    IN  IF t = <<>> THEN <<>>
        ELSE <<Take(t, e - 1)>> \o SplitWords(Drop(t, e - 1))

\* ' '.join(words)
RECURSIVE Join(_)
Join(words) ==
    IF words = <<>> THEN <<>>
    ELSE IF Len(words) = 1 THEN words[1]
    ELSE words[1] \o <<" ">> \o Join(Tail(words))

RECURSIVE DecimalValue(_)
DecimalValue(ds) ==
    IF ds = <<>> THEN 0
    ELSE 10 * DecimalValue(Take(ds, Len(ds) - 1)) + DigitValue(ds[Len(ds)])

\* int(s): surrounding whitespace is ignored, one optional sign, then digits;
\* anything else raises ValueError (ok = FALSE)
ParseInt(s) ==
    LET t == Strip(s)
        neg == t # <<>> /\ Head(t) = "-"
        pos == t # <<>> /\ Head(t) = "+"
        ds == IF neg \/ pos THEN Tail(t) ELSE t
        ok == ds # <<>> /\ \A k \in 1..Len(ds) : ds[k] \in DigitChars
    IN  [ok |-> ok,
         value |-> IF ~ok THEN 0 ELSE IF neg THEN 0 - DecimalValue(ds) ELSE DecimalValue(ds)]

\* str(n) for n >= 0, as in an f-string
RECURSIVE ToStr(_)
ToStr(n) ==
    IF n < 10 THEN <<DigitOf(n)>> ELSE ToStr(n \div 10) \o <<DigitOf(n % 10)>>

\* ceil(a / b) for b > 0
CeilDiv(a, b) == (a + b - 1) \div b


(***************************************************************************)
(* PDFProcessor (pdf_processor.py)                                         *)
(***************************************************************************)

\* the literal '--- Page' that chunk_text splits on
PAGE_SEP == <<"-", "-", "-", " ", "P", "a", "g", "e">>

\* the literal '---' that ends a page header
DASHES == <<"-", "-", "-">>

\* PDFProcessor() as constructed by fastAPI.py
DefaultChunkSize == 1000

\* the marker extract_text_from_pdf writes before the text of page n (1-based)
PageMarker(n) == <<"\n">> \o PAGE_SEP \o <<" ">> \o ToStr(n) \o <<" ">> \o DASHES \o <<"\n">>

\* extract_text_from_pdf over the extracted texts of the pages
RECURSIVE ExtractText(_, _)
ExtractText(page_texts, page_num) ==
    IF page_num >= Len(page_texts) THEN <<>>
    ELSE PageMarker(page_num + 1) \o page_texts[page_num + 1]
         \o ExtractText(page_texts, page_num + 1)

extract_text_from_pdf(page_texts) == ExtractText(page_texts, 0)

clean_text(t) == Strip(CollapseSpace(t))

\* the split into pages, line 39
SplitPages(t) == Split(clean_text(t), PAGE_SEP)

\* lines 45-51: the page number and the page body of one segment
PageHeader(idx, content) ==
    IF Contains(content, DASHES)
    THEN LET n == ParseInt(Split(content, DASHES)[1])
         IN  IF n.ok
             THEN [page_num |-> n.value - 1,
                   page_content |-> SplitOnce(content, DASHES)[2]]
             ELSE [page_num |-> idx, page_content |-> content]
    ELSE [page_num |-> idx, page_content |-> content]

\* len(chunks), the value of 'chunk_id' when a chunk is appended; base is the
\* number of chunks emitted before the page of the chunk
BadChunkIdPerPage(cs, base) == Len(cs) - base

NextChunkId(cs, base) == Len(cs)

\* lines 55-62: a page that fits in one chunk
SingleChunk(cs, fname, page_num, content) ==
    Append(cs, [content |-> Strip(content),
                metadata |-> [filename |-> fname, page |-> page_num,
                              chunk_id |-> NextChunkId(cs, Len(cs))]])

\* range(0, len(words), step), line 66
BadWindowStep(size) == size \div 10 + 1

WindowStep(size) == size \div 10

\* lines 66-79: the windows of a long page, from word offset i on
RECURSIVE WindowChunks(_, _, _, _, _, _, _)
WindowChunks(cs, base, words, i, step, fname, page_num) ==
    IF i >= Len(words) THEN cs
    ELSE LET hi == IF i + step <= Len(words) THEN i + step ELSE Len(words)
             chunk_content == Join(SubSeq(words, i + 1, hi))
             next == IF Strip(chunk_content) # <<>>
                     THEN Append(cs, [content |-> Strip(chunk_content),
                                      metadata |-> [filename |-> fname,
                                                    page |-> page_num,
                                                    chunk_id |-> NextChunkId(cs, base),
                                                    sub_chunk |-> i \div step]])
                     ELSE cs
         IN  WindowChunks(next, base, words, i + step, step, fname, page_num)

\* the body of the loop over pages, lines 41-79; raised is the ValueError of
\* range() with a step of zero
ChunkPageBody(cs, idx, content, fname, size) ==
    IF Strip(content) = <<>> THEN [chunks |-> cs, raised |-> FALSE]
    ELSE LET h == PageHeader(idx, content)
         IN  IF Len(h.page_content) <= size
             THEN [chunks |-> SingleChunk(cs, fname, h.page_num, h.page_content),
                   raised |-> FALSE]
             ELSE IF WindowStep(size) = 0
                  THEN [chunks |-> cs, raised |-> TRUE]
                  ELSE [chunks |-> WindowChunks(cs, Len(cs), SplitWords(h.page_content), 0,
                                                WindowStep(size), fname, h.page_num),
                        raised |-> FALSE]

\* chunk_text as one call: the loop over pages segments from index idx on
RECURSIVE ChunkLoop(_, _, _, _, _)
ChunkLoop(cs, segs, idx, fname, size) ==
    IF idx >= Len(segs) THEN [chunks |-> cs, raised |-> FALSE]
    ELSE LET r == ChunkPageBody(cs, idx, segs[idx + 1], fname, size)
         IN  IF r.raised THEN r ELSE ChunkLoop(r.chunks, segs, idx + 1, fname, size)

chunk_text(t, fname, size) == ChunkLoop(<<>>, SplitPages(t), 0, fname, size)


(***************************************************************************)
(* State                                                                   *)
(***************************************************************************)
VARIABLES
    text,          \* chunk_text: the argument text
    filename,      \* chunk_text: the argument filename
    chunk_size,    \* PDFProcessor.chunk_size
    pages,         \* chunk_text: the local pages
    page_idx,      \* chunk_text: the loop index over pages
    chunks,        \* chunk_text: the local chunks
    chunker_pc,    \* chunk_text: "call", "loop", "returned" or "raised"
    client,        \* the OllamaClient call in progress, its locals and its outcome
    collection,    \* the entries of the chroma collection "pdf_documents"
    uploads,       \* the file names saved under UPLOAD_DIR
    chat_sessions, \* RAGService.chat_sessions: session id -> list of turns
    request,       \* the FastAPI handler that occupies the event loop, its locals
    response,      \* the last HTTP response (or direct method result)
    appended,      \* history: per session, the turns appended since it was last cleared
    handled,       \* history: the number of handler and method calls started
    answered       \* history: the asks that returned a ChatResponse, in the order they returned

chunker_vars == <<text, filename, chunk_size, pages, page_idx, chunks, chunker_pc>>

service_vars ==
    <<collection, uploads, chat_sessions, request, response, appended, handled, answered>>

vars == <<chunker_vars, client, service_vars>>

(***************************************************************************)
(* Inputs                                                                  *)
(***************************************************************************)

\* number of pieces an input text is concatenated from
MaxPieces == 4

\* a page body longer than the smaller chunk sizes: 8 words, 23 characters
LongBody == <<"a", "b", " ", "c", "d", " ", "e", "f", " ", "g", "h", " ",
              "i", "j", " ", "k", "l", " ", "m", "n", " ", "o", "p">>

Pieces == {PageMarker(1), PageMarker(2), <<"x", "y", " ">>, DASHES,
           <<"7", " ">>, LongBody}

RECURSIVE TextsOf(_)
TextsOf(n) ==
    IF n = 0 THEN {<<>>}
    ELSE LET shorter == TextsOf(n - 1)
         IN  shorter \cup {t \o p : t \in shorter, p \in Pieces}

Texts == TextsOf(MaxPieces)

\* chunk sizes a PDFProcessor is configured with
ChunkSizes == {5, 10, 25}

(***************************************************************************)
(* Exceptions: the class and the message, outermost prefix first           *)
(***************************************************************************)

None == [class |-> "None", message |-> <<>>]

Raise(msg) == [class |-> "Exception", message |-> msg]

\* raise Exception(f"{prefix}: {str(e)}")
Wrap(prefix, e) == [class |-> "Exception", message |-> <<prefix>> \o e.message]

ServiceNotRunning == <<"Ollama service is not running. Please start Ollama with 'ollama serve'">>

ModelNotFound(name) == <<"Model not found. Please run 'ollama pull'", name>>

(***************************************************************************)
(* OllamaClient (rag_service.py)                                           *)
(***************************************************************************)

\* self.max_retries
max_retries == 3

\* self.retry_delay, seconds
retry_delay == 2

\* model ids as the listing endpoint names them: name, ':', tag
NomicLatest == <<"nomic-embed-text", ":", "latest">>
TinyLlama11b == <<"tinyllama", ":", "1.1b">>
TinyLlamaLatest == <<"tinyllama", ":", "latest">>

ModelIds == {NomicLatest, TinyLlama11b, TinyLlamaLatest}

\* the name each operation passes to _check_model_availability
CheckedModel(op) == IF op = "embed" THEN <<"nomic-embed-text">> ELSE <<"tinyllama">>

\* the "model" field of the POST each operation sends
RequestModel(op) == IF op = "embed" THEN <<"nomic-embed-text">> ELSE TinyLlama11b

\* the name in the ModelNotFound message of each operation
MissingModelName(op) == IF op = "embed" THEN "nomic-embed-text" ELSE "tinyllama:1.1b"

\* the answers of GET /api/tags: no answer (exception or status other than
\* 200), or status 200 with the set of registered model ids
NoAnswer == [ok |-> FALSE, models |-> {}]

Listing(models) == [ok |-> TRUE, models |-> models]

Listings == {NoAnswer} \cup {Listing(ms) : ms \in SUBSET ModelIds}

\* the failures requests.post / raise_for_status signal, all of them
\* subclasses of requests.exceptions.RequestException
TransportFailures == {"ConnectionError", "Timeout", "HTTPError"}

\* a 200 answer whose JSON lacks the expected key
KeyErrorOutcome == "KeyError"

OkOutcome == "ok"

\* the texts POST /api/generate answers with
Responses == {"r1", "r2"}

\* the vector POST /api/embeddings answers with for a prompt
Embedding(prompt) == [embedding_of |-> prompt]

IdleClient ==
    [pc |-> "idle", op |-> "none", prompt |-> <<>>, attempt |-> 0, posts |-> 0,
     slept |-> 0, reached |-> FALSE, listing |-> NoAnswer,
     outcomes |-> <<>>, result |-> <<>>, error |-> None]

\* entry of generate_embeddings (op "embed") or chat_completion (op "chat")
NewCall(op, prompt) == [IdleClient EXCEPT !.pc = "check_conn", !.op = op, !.prompt = prompt]

\* _check_ollama_connection, lines 18-23
check_ollama_connection(answer) == answer.ok

\* _check_model_availability, lines 25-33
BadCheckIgnoresModel(answer, model_name) == answer.ok

check_model_availability(answer, model_name) ==
    /\ answer.ok
    /\ \E m \in answer.models : Contains(m, model_name)

\* lines 36-37 and 62-63
CheckConnection(answer) ==
    /\ client.pc = "check_conn"
    /\ client' = IF check_ollama_connection(answer)
                 THEN [client EXCEPT !.pc = "check_model", !.reached = answer.ok]
                 ELSE [client EXCEPT !.pc = "raised", !.reached = answer.ok,
                          !.error = Raise(ServiceNotRunning)]
    /\ UNCHANGED <<chunker_vars, service_vars>>

\* lines 39-40 and 65-66
CheckModel(answer) ==
    /\ client.pc = "check_model"
    /\ client' = IF check_model_availability(answer, CheckedModel(client.op))
                 THEN [client EXCEPT !.pc = "post", !.listing = answer]
                 ELSE [client EXCEPT !.pc = "raised", !.listing = answer,
                          !.error = Raise(ModelNotFound(MissingModelName(client.op)))]
    /\ UNCHANGED <<chunker_vars, service_vars>>

\* the test of line 55: this was the last attempt
BadLastAttempt(attempt) == attempt = max_retries

LastAttempt(attempt) == attempt = max_retries - 1

\* one iteration of the loop of lines 42-57, up to the return, the raise or
\* the start of the sleep; when range(max_retries) is exhausted, line 59
PostEmbeddings(outcome) ==
    /\ client.pc = "post"
    /\ client.op = "embed"
    /\ LET sent == [client EXCEPT !.posts = @ + 1, !.outcomes = Append(@, outcome)]
       IN  client' =
             IF client.attempt >= max_retries
             THEN [client EXCEPT !.pc = "raised",
                      !.error = Raise(<<"Failed to generate embeddings">>)]
             ELSE IF outcome = OkOutcome
             THEN [sent EXCEPT !.pc = "returned", !.result = Embedding(client.prompt)]
             ELSE IF outcome = KeyErrorOutcome
             THEN [sent EXCEPT !.pc = "raised",
                      !.error = [class |-> "KeyError", message |-> <<"embedding">>]]
             ELSE IF LastAttempt(client.attempt)
             THEN [sent EXCEPT !.pc = "raised",
                      !.error = Raise(<<"Error generating embeddings after 3 attempts", outcome>>)]
             ELSE [sent EXCEPT !.pc = "sleep"]
    /\ UNCHANGED <<chunker_vars, service_vars>>

\* time.sleep(self.retry_delay), line 57, and the next iteration
Backoff ==
    /\ client.pc = "sleep"
    /\ client' = [client EXCEPT !.pc = "post", !.slept = @ + retry_delay, !.attempt = @ + 1]
    /\ UNCHANGED <<chunker_vars, service_vars>>

\* lines 68-92: the single POST of chat_completion
PostGenerate(outcome) ==
    /\ client.pc = "post"
    /\ client.op = "chat"
    /\ LET sent == [client EXCEPT !.posts = @ + 1, !.outcomes = Append(@, outcome)]
       IN  client' =
             IF outcome \in Responses
             THEN [sent EXCEPT !.pc = "returned", !.result = outcome]
             ELSE [sent EXCEPT !.pc = "raised",
                      !.error = Raise(<<"Error in chat completion", outcome>>)]
    /\ UNCHANGED <<chunker_vars, service_vars>>

\* lines 69-78: the prompt chat_completion builds from its arguments
BadPromptUsesFirstTurn(messages, context) ==
    [context |-> context,
     question |-> IF messages # <<>> THEN messages[1].content ELSE <<>>]

ChatPrompt(messages, context) ==
    [context |-> context,
     question |-> IF messages # <<>> THEN messages[Len(messages)].content ELSE <<>>]

(***************************************************************************)
(* RAGService and the FastAPI handlers (rag_service.py, fastAPI.py)        *)
(***************************************************************************)

SessionIds == {"s1", "s2"}

NoRequest == [kind |-> "none"]

NoResponse == [op |-> "none"]

\* the state of the service parts right after construction, no call made
ServiceIdle ==
    /\ collection = {}
    /\ uploads = {}
    /\ chat_sessions = <<>>
    /\ request = NoRequest
    /\ response = NoResponse
    /\ appended = [s \in SessionIds |-> <<>>]
    /\ handled = 0
    /\ answered = <<>>

\* the chunker is not running
ChunkerIdle ==
    /\ text = <<>>
    /\ filename = <<>>
    /\ chunk_size = DefaultChunkSize
    /\ pages = <<>>
    /\ page_idx = 0
    /\ chunks = <<>>
    /\ chunker_pc = "idle"

\* file.filename.lower().endswith('.pdf'), line 59 (names are lower case here)
IsPdfName(fname) ==
    /\ Len(fname) >= 4
    /\ SubSeq(fname, Len(fname) - 3, Len(fname)) = <<".", "p", "d", "f">>

\* the id of rag_service.py line 145
StorageId(fname, chunk_id, i) ==
    fname \o <<"_">> \o ToStr(chunk_id) \o <<"_">> \o ToStr(i)

\* lines 143-146: one chunk and its embedding appended to the local lists
BatchEntry(chunk, i, embedding) ==
    [id |-> StorageId(chunk.metadata.filename, chunk.metadata.chunk_id, i),
     document |-> chunk.content,
     metadata |-> chunk.metadata,
     embedding |-> embedding]

\* the collection after the loop body of lines 139-146 has run for one chunk
BadInsertPerChunk(coll, entry) ==
    coll \cup {e \in {entry} : e.id \notin {x.id : x \in coll}}

CollectionAfterEmbedding(coll, entry) == coll

\* what the store does with an add() that names ids it already holds
StoreBehaviours == {"reject", "ignore", "upsert"}

BatchIds(batch) == {batch[k].id : k \in DOMAIN batch}

\* collection.add(...), lines 148-153: [ok, collection]
CollectionAdd(coll, batch, behaviour) ==
    LET ids == BatchIds(batch)
        held == {e.id : e \in coll}
        new == {batch[k] : k \in DOMAIN batch}
    IN  IF batch = <<>> THEN [ok |-> behaviour # "reject", collection |-> coll]
        ELSE IF ids \cap held = {} THEN [ok |-> TRUE, collection |-> coll \cup new]
        ELSE IF behaviour = "reject" THEN [ok |-> FALSE, collection |-> coll]
        ELSE IF behaviour = "ignore"
        THEN [ok |-> TRUE, collection |-> coll \cup {e \in new : e.id \notin held}]
        ELSE [ok |-> TRUE, collection |-> {e \in coll : e.id \notin ids} \cup new]

\* the entries of the collection whose metadata names the file
ChunksOf(coll, fname) == {e \in coll : e.metadata.filename = fname}

\* the PDF bytes of an upload: the extracted text of each page, or bytes
\* that PyPDF2 cannot parse
Unparseable == [parseable |-> FALSE, pages |-> <<>>]

Pdf(page_texts) == [parseable |-> TRUE, pages |-> page_texts]

PageBodies == {<<>>, <<"x", "y">>}

PdfContents ==
    {Unparseable} \cup {Pdf(<<>>)} \cup {Pdf(<<b>>) : b \in PageBodies}
    \cup {Pdf(<<b1, b2>>) : b1 \in PageBodies, b2 \in PageBodies}

UploadNames == {<<"a", ".", "p", "d", "f">>, <<"b", ".", "p", "d", "f">>,
                <<"n", ".", "t", "x", "t">>}

\* number of uploads in one behaviour
MaxUploads == 2

\* the response of upload_pdf: UploadResponse (status 200) or HTTPException;
\* failed_at, embedded and index_before record where the call ended, how many
\* chunks it had embedded and the collection it started from
UploadResponse(status, failed_at, detail, fname, chunks_created, embedded, before) ==
    [op |-> "upload", status |-> status, failed_at |-> failed_at, detail |-> detail,
     filename |-> fname, chunks_created |-> chunks_created, embedded |-> embedded,
     index_before |-> before]

\* upload_pdf, lines 57-76 and add_documents up to its first embedding call
UploadStart(fname, pdf) ==
    /\ request = NoRequest
    /\ client.pc = "idle"
    /\ handled < MaxUploads
    /\ handled' = handled + 1
    /\ IF ~IsPdfName(fname)
       THEN /\ response' = UploadResponse(400, "filename",
                                           Raise(<<"Only PDF files are allowed">>),
                                           fname, 0, 0, collection)
            /\ UNCHANGED <<uploads, request, client>>
       ELSE /\ uploads' = uploads \cup {fname}
            /\ IF ~pdf.parseable
               THEN /\ response' = UploadResponse(500, "extract",
                                                   Raise(<<"Error processing PDF",
                                                           "Error extracting text from PDF">>),
                                                   fname, 0, 0, collection)
                    /\ UNCHANGED <<request, client>>
               ELSE LET cs == chunk_text(extract_text_from_pdf(pdf.pages), fname,
                                         DefaultChunkSize).chunks
                    IN  /\ request' = [kind |-> "upload", filename |-> fname,
                                       chunks |-> cs, i |-> 0, batch |-> <<>>,
                                       index_before |-> collection]
                        /\ client' = IF cs = <<>> THEN client
                                     ELSE NewCall("embed", cs[1].content)
                        /\ response' = NoResponse
    /\ UNCHANGED <<chunker_vars, collection, chat_sessions, appended, answered>>

\* add_documents, lines 143-146 after a successful embedding, and the next
\* generate_embeddings call of line 141
AddDocumentsCollect ==
    /\ request.kind = "upload"
    /\ client.pc = "returned"
    /\ LET entry == BatchEntry(request.chunks[request.i + 1], request.i, client.result)
           more == request.i + 1 < Len(request.chunks)
       IN  /\ request' = [request EXCEPT !.i = @ + 1, !.batch = Append(@, entry)]
           /\ collection' = CollectionAfterEmbedding(collection, entry)
           /\ client' = IF more THEN NewCall("embed", request.chunks[request.i + 2].content)
                        ELSE IdleClient
    /\ UNCHANGED <<chunker_vars, uploads, chat_sessions, response, appended, handled, answered>>

\* generate_embeddings raised: lines 156-157, then fastAPI.py lines 87-88
AddDocumentsAbort ==
    /\ request.kind = "upload"
    /\ client.pc = "raised"
    /\ response' = UploadResponse(500, "embed",
                                   Wrap("Error processing PDF",
                                        Wrap("Error adding documents to vector DB",
                                             client.error)),
                                   request.filename, 0, Len(request.batch),
                                   request.index_before)
    /\ request' = NoRequest
    /\ client' = IdleClient
    /\ UNCHANGED <<chunker_vars, collection, uploads, chat_sessions, appended, handled, answered>>

\* collection.add, lines 148-155, and the response of fastAPI.py lines 81-88
AddDocumentsInsert(behaviour) ==
    /\ request.kind = "upload"
    /\ client.pc = "idle"
    /\ request.i = Len(request.chunks)
    /\ LET r == CollectionAdd(collection, request.batch, behaviour)
       IN  /\ collection' = r.collection
           /\ response' =
                IF r.ok
                THEN UploadResponse(200, "none", None, request.filename,
                                    Len(request.chunks), Len(request.batch),
                                    request.index_before)
                ELSE UploadResponse(500, "insert",
                                    Wrap("Error processing PDF",
                                         Raise(<<"Error adding documents to vector DB",
                                                 "the store rejected the batch">>)),
                                    request.filename, 0, Len(request.batch),
                                    request.index_before)
    /\ request' = NoRequest
    /\ UNCHANGED <<chunker_vars, client, uploads, chat_sessions, appended, handled, answered>>

\* the answers of the model service in the handler specifications
SomeListings == {NoAnswer, Listing({}), Listing(ModelIds)}

SomeFailures == {"ConnectionError"}

InitIngest ==
    /\ ChunkerIdle
    /\ client = IdleClient
    /\ ServiceIdle

NextIngest ==
    \/ \E fname \in UploadNames, pdf \in PdfContents : UploadStart(fname, pdf)
    \/ \E answer \in SomeListings : CheckConnection(answer)
    \/ \E answer \in SomeListings : CheckModel(answer)
    \/ \E outcome \in {OkOutcome, KeyErrorOutcome} \cup SomeFailures : PostEmbeddings(outcome)
    \/ Backoff
    \/ AddDocumentsCollect
    \/ AddDocumentsAbort
    \/ \E behaviour \in StoreBehaviours : AddDocumentsInsert(behaviour)

SpecIngest == InitIngest /\ [][NextIngest]_vars

(***************************************************************************)
(* Properties of ingestion                                                 *)
(***************************************************************************)

\* C1: ingestion is all-or-nothing for the index: while an ingest call is
\* embedding, the collection is what it was when the call started; a call
\* in which an embedding failed ends with status 500 and the collection
\* unchanged; and an insert happened only after every chunk was embedded.
C1_IngestAllOrNothing ==
    /\ request.kind = "upload" => collection = request.index_before
    /\ (response.op = "upload" /\ response.failed_at = "embed") =>
           /\ response.status = 500
           /\ response.detail.class = "Exception"
           /\ collection = response.index_before
    /\ (response.op = "upload" /\ collection # response.index_before) =>
           /\ response.status = 200
           /\ response.embedded = response.chunks_created

\* an ingest that failed at its second chunk, over an index that held chunks
C1_Witness ==
    /\ response.op = "upload"
    /\ response.failed_at = "embed"
    /\ response.embedded >= 1
    /\ response.index_before # {}
    /\ response.detail.message[3] = ServiceNotRunning[1]

\* C7: an ingest whose chunks were all embedded succeeds and adds all of
\* them to the chunks the index already held for that filename (n1 + n2).
C7_ReuploadAddsChunks ==
    (response.op = "upload" /\ response.failed_at \in {"none", "insert"}
        /\ response.embedded > 0) =>
        /\ response.status = 200
        /\ Cardinality(ChunksOf(collection, response.filename))
             = Cardinality(ChunksOf(response.index_before, response.filename))
               + response.chunks_created

(***************************************************************************)
(* The OllamaClient methods called on their own                            *)
(***************************************************************************)

Prompts == {<<"q">>}

Contexts == {<<>>, <<"c">>}

MessageLists ==
    {<<>>, <<[role |-> "user", content |-> "m1"]>>,
     <<[role |-> "user", content |-> "m1"], [role |-> "assistant", content |-> "r1"],
       [role |-> "user", content |-> "m2"]>>}

CallGenerateEmbeddings(prompt) ==
    /\ request = NoRequest
    /\ client.pc = "idle"
    /\ client' = NewCall("embed", prompt)
    /\ UNCHANGED <<chunker_vars, service_vars>>

CallChatCompletion(messages, context) ==
    /\ request = NoRequest
    /\ client.pc = "idle"
    /\ client' = NewCall("chat", ChatPrompt(messages, context))
    /\ UNCHANGED <<chunker_vars, service_vars>>

\* the caller takes the value or the exception
ClientDone ==
    /\ request = NoRequest
    /\ client.pc \in {"returned", "raised"}
    /\ client' = IdleClient
    /\ UNCHANGED <<chunker_vars, service_vars>>

InitClient ==
    /\ ChunkerIdle
    /\ client = IdleClient
    /\ ServiceIdle

NextClient ==
    \/ \E prompt \in Prompts : CallGenerateEmbeddings(prompt)
    \/ \E messages \in MessageLists, context \in Contexts :
           CallChatCompletion(messages, context)
    \/ \E answer \in Listings : CheckConnection(answer)
    \/ \E answer \in Listings : CheckModel(answer)
    \/ \E outcome \in {OkOutcome, KeyErrorOutcome} \cup TransportFailures :
           PostEmbeddings(outcome)
    \/ Backoff
    \/ \E outcome \in Responses \cup {KeyErrorOutcome} \cup TransportFailures :
           PostGenerate(outcome)
    \/ ClientDone

SpecClient == InitClient /\ [][NextClient]_vars

\* the call is over
ClientEnded == client.pc \in {"returned", "raised"}

\* the listing the availability check received names the checked model
CheckedModelListed ==
    /\ client.listing.ok
    /\ \E m \in client.listing.models : Contains(m, CheckedModel(client.op))

\* C5: generate_embeddings sends at most 3 POSTs; it returns the vector of
\* the first successful one and sends no more; it sleeps retry_delay between
\* consecutive attempts and not after the last; three transport failures end
\* in an exception that carries the last failure; the attempt counter never
\* reaches max_retries, so the loop ends.
C5_EmbeddingRetries ==
    client.op = "embed" =>
        /\ client.posts <= max_retries
        /\ client.posts = Len(client.outcomes)
        /\ client.attempt < max_retries
        /\ \A k \in 1..(Len(client.outcomes) - 1) : client.outcomes[k] \in TransportFailures
        /\ client.pc = "returned" =>
               /\ client.outcomes[Len(client.outcomes)] = OkOutcome
               /\ client.result = Embedding(client.prompt)
        /\ (ClientEnded /\ client.posts > 0) =>
               client.slept = retry_delay * (client.posts - 1)
        /\ (client.posts = max_retries
              /\ client.outcomes[max_retries] \in TransportFailures) =>
               /\ client.pc = "raised"
               /\ client.error.class = "Exception"
               /\ client.error.message[Len(client.error.message)]
                    = client.outcomes[max_retries]

\* three transport failures, the last one differing from the second
C5_Witness ==
    /\ client.op = "embed"
    /\ client.pc = "raised"
    /\ client.posts = 3
    /\ client.slept = 4
    /\ client.outcomes = <<"Timeout", "ConnectionError", "HTTPError">>

C18_RequestedModelRegistered ==
    (client.op = "chat" /\ client.posts > 0) =>
        /\ CheckedModelListed
        /\ RequestModel(client.op) \in client.listing.models

(***************************************************************************)
(* Session history and chat_with_rag                                       *)
(***************************************************************************)

\* the history length add_to_chat_history trims to, lines 195-196
HistoryLimit == 10

\* s[-n:]
LastN(h, n) == IF Len(h) > n THEN SubSeq(h, Len(h) - n + 1, Len(h)) ELSE h

\* lines 195-196
BadTrimKeepsOldest(h) == IF Len(h) > HistoryLimit THEN SubSeq(h, 1, HistoryLimit) ELSE h

BadTrimOffByOne(h) == IF Len(h) > HistoryLimit + 1 THEN LastN(h, HistoryLimit) ELSE h

TrimHistory(h) == IF Len(h) > HistoryLimit THEN LastN(h, HistoryLimit) ELSE h

\* get_chat_history, lines 183-184
get_chat_history(sessions, session_id) ==
    IF session_id \in DOMAIN sessions THEN sessions[session_id] ELSE <<>>

\* add_to_chat_history, lines 186-196: the session map after the call
BadAddResetsSession(sessions, session_id, role, content) ==
    [s \in DOMAIN sessions \cup {session_id} |->
        IF s = session_id THEN <<[role |-> role, content |-> content]>> ELSE sessions[s]]

add_to_chat_history(sessions, session_id, role, content) ==
    LET h == Append(get_chat_history(sessions, session_id),
                    [role |-> role, content |-> content])
    IN  [s \in DOMAIN sessions \cup {session_id} |->
            IF s = session_id THEN TrimHistory(h) ELSE sessions[s]]

\* del rag_service.chat_sessions[session_id], fastAPI.py lines 116-117
BadDeleteAllSessions(sessions, session_id) ==
    [s \in {x \in DOMAIN sessions : session_id \notin DOMAIN sessions} |-> sessions[s]]

delete_session(sessions, session_id) ==
    [s \in DOMAIN sessions \ {session_id} |-> sessions[s]]

\* the log of appended turns after one more append
Logged(log, session_id, role, content) ==
    [log EXCEPT ![session_id] = Append(@, [role |-> role, content |-> content])]

Roles == {"user", "assistant"}

Messages == {"m1", "m2"}

\* number of turns appended in one behaviour of the history specification
MaxAppends == 12

RECURSIVE SumLen(_, _)
SumLen(log, ids) ==
    IF ids = {} THEN 0
    ELSE LET s == CHOOSE x \in ids : TRUE
         IN  Len(log[s]) + SumLen(log, ids \ {s})

\* The three operations below leave the count of requests to the
\* specification that uses them.

\* RAGService.add_to_chat_history called on its own
AddToChatHistory(session_id, role, content) ==
    /\ request = NoRequest
    /\ client.pc = "idle"
    /\ chat_sessions' = add_to_chat_history(chat_sessions, session_id, role, content)
    /\ appended' = Logged(appended, session_id, role, content)
    /\ response' = [op |-> "append", session_id |-> session_id]
    /\ UNCHANGED <<chunker_vars, client, collection, uploads, request, answered>>

\* GET /sessions/{session_id}/history, fastAPI.py lines 106-110
GetChatHistory(session_id) ==
    /\ request = NoRequest
    /\ client.pc = "idle"
    /\ response' = [op |-> "history", session_id |-> session_id,
                    messages |-> get_chat_history(chat_sessions, session_id)]
    /\ UNCHANGED <<chunker_vars, client, collection, uploads, chat_sessions, request,
                   appended, answered>>

\* DELETE /sessions/{session_id}, fastAPI.py lines 113-118
ClearChatHistory(session_id) ==
    /\ request = NoRequest
    /\ client.pc = "idle"
    /\ chat_sessions' = delete_session(chat_sessions, session_id)
    /\ appended' = [appended EXCEPT ![session_id] = <<>>]
    /\ response' = [op |-> "clear", session_id |-> session_id]
    /\ UNCHANGED <<chunker_vars, client, collection, uploads, request, answered>>

InitHistory ==
    /\ ChunkerIdle
    /\ client = IdleClient
    /\ ServiceIdle

NextHistory ==
    \/ \E session_id \in SessionIds, role \in Roles :
           /\ SumLen(appended, SessionIds) < MaxAppends
           /\ AddToChatHistory(session_id, role, "m1")
           /\ UNCHANGED handled
    \/ \E session_id \in SessionIds : GetChatHistory(session_id) /\ UNCHANGED handled
    \/ \E session_id \in SessionIds : ClearChatHistory(session_id) /\ UNCHANGED handled

SpecHistory == InitHistory /\ [][NextHistory]_vars

\* C3: after N >= 11 turns appended to a session with no clear in between,
\* getHistory returns exactly the last 10 appended turns, in append order.
C3_LastTenInOrder ==
    /\ \A s \in SessionIds :
           Len(appended[s]) >= 11 =>
               get_chat_history(chat_sessions, s) = LastN(appended[s], 10)
    /\ (response.op = "history" /\ Len(appended[response.session_id]) >= 11) =>
           response.messages = LastN(appended[response.session_id], 10)

C3_Witness ==
    /\ response.op = "history"
    /\ Len(appended[response.session_id]) = 11
    /\ appended[response.session_id][1].role # appended[response.session_id][11].role
    /\ response.messages[10] = appended[response.session_id][11]

(***************************************************************************)
(* chat_with_rag behind POST /chat                                         *)
(***************************************************************************)

\* number of requests in one behaviour of the chat specification
MaxRequests == 2

\* k of chat_with_rag's similarity_search call, line 200
SearchK == 3

Min(a, b) == IF a < b THEN a ELSE b

\* collection.query(n_results = k), lines 164-167: the k nearest entries,
\* nearest first; which entries are nearest is the store's and the model's
\* business, so every selection and order of min(k, count) entries
QueryResults(coll, k) ==
    LET n == Min(k, Cardinality(coll))
    IN  {r \in [1..n -> coll] : \A i, j \in 1..n : i # j => r[i] # r[j]}

\* lines 169-179: the DocumentChunks built from the results
RelevantChunks(results) ==
    [i \in DOMAIN results |->
        [content |-> results[i].document, metadata |-> results[i].metadata]]

\* line 202
RECURSIVE JoinContext(_)
JoinContext(cs) ==
    IF cs = <<>> THEN <<>>
    ELSE IF Len(cs) = 1 THEN cs[1].content
    ELSE cs[1].content \o <<"\n", "\n">> \o JoinContext(Tail(cs))

\* lines 216-220
SourceInfo(metadata) ==
    LET file == IF "filename" \in DOMAIN metadata THEN metadata.filename ELSE <<"Unknown">>
    IN  IF "page" \in DOMAIN metadata
        THEN [file |-> file, has_page |-> TRUE, page |-> metadata.page]
        ELSE [file |-> file, has_page |-> FALSE, page |-> 0]

\* lines 215-220: the loop that builds sources
RECURSIVE BadSourcesUnique(_)
BadSourcesUnique(relevant_chunks) ==
    IF relevant_chunks = <<>> THEN <<>>
    ELSE LET n == Len(relevant_chunks)
             rest == BadSourcesUnique(Take(relevant_chunks, n - 1))
             info == SourceInfo(relevant_chunks[n].metadata)
         IN  IF \E i \in DOMAIN rest : rest[i] = info THEN rest ELSE Append(rest, info)

Sources(relevant_chunks) ==
    [i \in DOMAIN relevant_chunks |-> SourceInfo(relevant_chunks[i].metadata)]

\* the response of POST /chat: ChatResponse (status 200) or HTTPException;
\* failed_at and history_before record where the call ended and the history
\* of the session when the call started, retrieved the chunks the search
\* returned, prompt and generate_posts the prompt chat_completion built and
\* the number of POSTs it sent to /api/generate
ChatResponse(status, failed_at, detail, answer, sources) ==
    [op |-> "chat", status |-> status, failed_at |-> failed_at, detail |-> detail,
     response |-> answer, sources |-> sources, session_id |-> request.session_id,
     message |-> request.message, history_before |-> request.history_before,
     retrieved |-> request.relevant_chunks,
     prompt |-> IF client.op = "chat" THEN client.prompt ELSE ChatPrompt(<<>>, <<>>),
     generate_posts |-> IF client.op = "chat" THEN client.posts ELSE 0]

\* fastAPI.py lines 92-98 and rag_service.py lines 198-200, 162
ChatStart(message, session_id) ==
    /\ request = NoRequest
    /\ client.pc = "idle"
    /\ handled < MaxRequests
    /\ handled' = handled + 1
    /\ request' = [kind |-> "chat", pc |-> "search", message |-> message,
                   session_id |-> session_id, relevant_chunks |-> <<>>,
                   history_before |-> get_chat_history(chat_sessions, session_id)]
    /\ client' = NewCall("embed", message)
    /\ response' = NoResponse
    /\ UNCHANGED <<chunker_vars, collection, uploads, chat_sessions, appended, answered>>

\* the query embedding failed: lines 180-181, 227-228, fastAPI.py 102-103
ChatSearchFailed ==
    /\ request.kind = "chat"
    /\ request.pc = "search"
    /\ client.pc = "raised"
    /\ response' = ChatResponse(500, "search",
                                Wrap("Error in chat",
                                     Wrap("Error in RAG chat",
                                          Wrap("Error in similarity search", client.error))),
                                <<>>, <<>>)
    /\ request' = NoRequest
    /\ client' = IdleClient
    /\ UNCHANGED <<chunker_vars, collection, uploads, chat_sessions, appended, handled, answered>>

\* lines 164-179 and 202-211: the query, the context, the user turn and the
\* chat_completion call
ChatRetrieve(results) ==
    /\ request.kind = "chat"
    /\ request.pc = "search"
    /\ client.pc = "returned"
    /\ LET relevant == RelevantChunks(results)
           sessions == add_to_chat_history(chat_sessions, request.session_id,
                                           "user", request.message)
       IN  /\ request' = [request EXCEPT !.pc = "generate", !.relevant_chunks = relevant]
           /\ chat_sessions' = sessions
           /\ client' = NewCall("chat",
                                ChatPrompt(get_chat_history(sessions, request.session_id),
                                           JoinContext(relevant)))
    /\ appended' = Logged(appended, request.session_id, "user", request.message)
    /\ UNCHANGED <<chunker_vars, collection, uploads, response, handled, answered>>

\* chat_completion raised: lines 227-228, fastAPI.py 102-103
ChatGenerateFailed ==
    /\ request.kind = "chat"
    /\ request.pc = "generate"
    /\ client.pc = "raised"
    /\ response' = ChatResponse(500, "generate",
                                Wrap("Error in chat", Wrap("Error in RAG chat", client.error)),
                                <<>>, <<>>)
    /\ request' = NoRequest
    /\ client' = IdleClient
    /\ UNCHANGED <<chunker_vars, collection, uploads, chat_sessions, appended, handled, answered>>

\* one entry of the log of successful asks: the session and message of the
\* call, the "response" field of the ChatResponse it returned, the ordinal
\* of the call among the requests and the length of the history it found
Answer(req, call, answer) ==
    [session_id |-> req.session_id, message |-> req.message, response |-> answer,
     call |-> call, turns_before |-> Len(req.history_before)]

\* lines 213-226 and fastAPI.py line 100
ChatFinish ==
    /\ request.kind = "chat"
    /\ request.pc = "generate"
    /\ client.pc = "returned"
    /\ chat_sessions' = add_to_chat_history(chat_sessions, request.session_id,
                                            "assistant", client.result)
    /\ appended' = Logged(appended, request.session_id, "assistant", client.result)
    /\ response' = ChatResponse(200, "none", None, client.result,
                                Sources(request.relevant_chunks))
    /\ answered' = Append(answered, Answer(request, handled, client.result))
    /\ request' = NoRequest
    /\ client' = IdleClient
    /\ UNCHANGED <<chunker_vars, collection, uploads, handled>>

\* histories a session can have reached: n turns of alternating successful
\* asks, the last ask having failed at generation when n is odd
RECURSIVE Alternating(_)
Alternating(n) ==
    IF n = 0 THEN <<>>
    ELSE Append(Alternating(n - 1),
                IF n % 2 = 1
                THEN [role |-> "user", content |-> IF n % 4 = 1 THEN "m1" ELSE "m2"]
                ELSE [role |-> "assistant", content |-> IF n % 4 = 2 THEN "r1" ELSE "r2"])

StartHistories == {Alternating(n) : n \in {0, 1, 9, 10}}

\* the entries a successful upload of the pages leaves in an empty collection
RECURSIVE Batch(_, _)
Batch(cs, i) ==
    IF i >= Len(cs) THEN <<>>
    ELSE <<BatchEntry(cs[i + 1], i, Embedding(cs[i + 1].content))>> \o Batch(cs, i + 1)

Ingested(fname, page_texts) ==
    LET cs == chunk_text(extract_text_from_pdf(page_texts), fname, DefaultChunkSize).chunks
    IN  CollectionAdd({}, Batch(cs, 0), "reject").collection

\* the text of a page that quotes a page marker between its words 'ab' and
\* 'cd': chunk_text cuts it into two segments with the same page number
QuotingPage == <<"a", "b">> \o PageMarker(1) \o <<"c", "d">>

StartCollections ==
    {{}, Ingested(<<"a", ".", "p", "d", "f">>, <<<<"x", "y">>, <<"x", "y">>>>)}

\* the collections of the retrieval specification: empty, or four chunks of
\* three pages, two of them with the same file and page
AskCollections ==
    {{}, Ingested(<<"b", ".", "p", "d", "f">>, <<QuotingPage, <<"x", "y">>, <<"z">>>>)}

InitChat ==
    /\ ChunkerIdle
    /\ client = IdleClient
    /\ collection \in StartCollections
    /\ uploads = {}
    /\ \E h1 \in StartHistories, h2 \in {Alternating(0), Alternating(10)} :
           /\ chat_sessions = [s \in {x \in SessionIds :
                                        IF x = "s1" THEN h1 # <<>> ELSE h2 # <<>>} |->
                                    IF s = "s1" THEN h1 ELSE h2]
           /\ appended = [s \in SessionIds |-> IF s = "s1" THEN h1 ELSE h2]
    /\ request = NoRequest
    /\ response = NoResponse
    /\ handled = 0
    /\ answered = <<>>

\* an append, a read or a clear counts as one request
Counted == handled < MaxRequests /\ handled' = handled + 1

NextChat ==
    \/ \E message \in Messages, session_id \in SessionIds : ChatStart(message, session_id)
    \/ \E answer \in SomeListings : CheckConnection(answer)
    \/ \E answer \in SomeListings : CheckModel(answer)
    \/ \E outcome \in {OkOutcome, KeyErrorOutcome} \cup SomeFailures : PostEmbeddings(outcome)
    \/ Backoff
    \/ ChatSearchFailed
    \/ \E results \in QueryResults(collection, SearchK) : ChatRetrieve(results)
    \/ \E outcome \in Responses \cup SomeFailures : PostGenerate(outcome)
    \/ ChatGenerateFailed
    \/ ChatFinish
    \/ \E session_id \in SessionIds, role \in Roles, content \in Messages :
           AddToChatHistory(session_id, role, content) /\ Counted
    \/ \E session_id \in SessionIds : GetChatHistory(session_id) /\ Counted
    \/ \E session_id \in SessionIds : ClearChatHistory(session_id) /\ Counted

\* C2: every session's history holds at most 10 turns, in every state
\* reached by asks, appends and clears on any sessions.
C2_HistoryBounded ==
    \A s \in DOMAIN chat_sessions : Len(chat_sessions[s]) <= 10

\* a full history that an ask has appended both of its turns to
C2_Witness ==
    /\ response.op = "chat"
    /\ response.status = 200
    /\ Len(response.history_before) = 10
    /\ Len(chat_sessions[response.session_id]) = 10
    /\ Len(appended[response.session_id]) = 12

\* C4: when ask fails at the generation stage, the response is an error and
\* the history of the session is the history before the call with the user
\* turn of the call appended, trimmed to its last 10, and no assistant turn.
C4_UserTurnKeptOnFailure ==
    (response.op = "chat" /\ response.failed_at = "generate") =>
        /\ response.status = 500
        /\ response.detail.class = "Exception"
        /\ get_chat_history(chat_sessions, response.session_id)
             = LastN(Append(response.history_before,
                            [role |-> "user", content |-> response.message]), 10)

\* a generation failure on a session whose history was full
C4_Witness ==
    /\ response.op = "chat"
    /\ response.failed_at = "generate"
    /\ Len(response.history_before) = 10
    /\ response.detail.message[3] = "Error in chat completion"
    /\ chat_sessions[response.session_id][10] = [role |-> "user", content |-> response.message]
    /\ chat_sessions[response.session_id][9] = response.history_before[10]

SpecChat == InitChat /\ [][NextChat]_vars

(***************************************************************************)
(* Retrieval: asks on one session over an empty and a four-chunk index     *)
(***************************************************************************)

InitAsk ==
    /\ ChunkerIdle
    /\ client = IdleClient
    /\ collection \in AskCollections
    /\ uploads = {}
    /\ chat_sessions = <<>>
    /\ request = NoRequest
    /\ response = NoResponse
    /\ appended = [s \in SessionIds |-> <<>>]
    /\ handled = 0
    /\ answered = <<>>

NextAsk ==
    \/ \E message \in Messages : ChatStart(message, "s1")
    \/ \E answer \in SomeListings : CheckConnection(answer)
    \/ \E answer \in SomeListings : CheckModel(answer)
    \/ \E outcome \in {OkOutcome} \cup SomeFailures : PostEmbeddings(outcome)
    \/ Backoff
    \/ ChatSearchFailed
    \/ \E results \in QueryResults(collection, SearchK) : ChatRetrieve(results)
    \/ \E outcome \in Responses \cup SomeFailures : PostGenerate(outcome)
    \/ ChatGenerateFailed
    \/ ChatFinish

SpecAsk == InitAsk /\ [][NextAsk]_vars

\* C13: an ask that returns a ChatResponse returns one source per retrieved
\* chunk, min(3, size of the index) of them, the i-th source naming the file
\* and page of the i-th retrieved chunk, equal sources repeated; over an
\* empty index the sources are the empty list.
C13_SourcesPerChunk ==
    (response.op = "chat" /\ response.status = 200) =>
        /\ Len(response.sources) = Len(response.retrieved)
        /\ Len(response.sources) = Min(3, Cardinality(collection))
        /\ \A i \in DOMAIN response.sources :
               /\ response.sources[i].file = response.retrieved[i].metadata.filename
               /\ response.sources[i].has_page
               /\ response.sources[i].page = response.retrieved[i].metadata.page
        /\ collection = {} => response.sources = <<>>

\* three of four chunks retrieved, the first and the third from the same
\* file and page, the second from another page
C13_Witness ==
    /\ response.op = "chat"
    /\ response.status = 200
    /\ Cardinality(collection) = 4
    /\ Len(response.sources) = 3
    /\ response.sources[1] = response.sources[3]
    /\ response.sources[1] # response.sources[2]
    /\ response.retrieved[1].content # response.retrieved[3].content

\* an ask over the empty index that returned a ChatResponse
C13_EmptyIndexAnswered ==
    /\ response.op = "chat"
    /\ response.status = 200
    /\ collection = {}
    /\ response.sources = <<>>
    /\ response.prompt.context = <<>>

\* chat_completion raised inside its try block, that is after its POST
PostFailed(resp) == resp.detail.message[3] = "Error in chat completion"

\* C16 as stated: every ask calls the generation endpoint exactly once, with
\* the message of the call as the user question of the prompt.
C16_OneGenerationPerAsk ==
    response.op = "chat" =>
        /\ response.generate_posts = 1
        /\ response.prompt.question = response.message

\* C16 amended: an ask sends at most one POST to the generation endpoint: none
\* when it fails at the search or at the pre-checks of chat_completion, and
\* exactly one otherwise, whether that POST succeeds or fails; the prompt of
\* the POST holds the context of the retrieved chunks and, as user question,
\* the message of this call, whatever the history of the session.
C16_PromptAndSingleAttempt ==
    /\ (request.kind = "chat" /\ client.op = "chat") => client.posts <= 1
    /\ response.op = "chat" =>
           /\ response.generate_posts <= 1
           /\ response.status = 200 => response.generate_posts = 1
           /\ response.failed_at = "search" => response.generate_posts = 0
           /\ response.failed_at = "generate" =>
                  (response.generate_posts = 1 <=> PostFailed(response))
           /\ response.generate_posts = 1 =>
                  response.prompt = [context |-> JoinContext(response.retrieved),
                                     question |-> response.message]

\* an ask on a full history whose single generation POST failed, with a
\* message that differs from the user turn before it
C16_Witness ==
    /\ response.op = "chat"
    /\ response.failed_at = "generate"
    /\ PostFailed(response)
    /\ response.generate_posts = 1
    /\ Len(response.history_before) = 10
    /\ response.history_before[9].role = "user"
    /\ response.history_before[9].content # response.message
    /\ response.prompt.question = response.message
    /\ response.prompt.context # <<>>

\* the session a step acts on: that of the ask in progress or started by the
\* step, else that of the append, read or clear the step performs
ActingSession ==
    IF request.kind = "chat" THEN request.session_id
    ELSE IF request'.kind = "chat" THEN request'.session_id
    ELSE response'.session_id

\* C17: a step of an ask, an append, a read or a clear on one session leaves
\* the history of every other session as it was; right after a clear of a
\* session its history is empty and a read of it returns the empty list; a
\* read of a session that was never appended to returns the empty list and
\* does not create the session.
C17_SessionsPartitioned ==
    [][/\ \A s \in SessionIds \ {ActingSession} :
              /\ get_chat_history(chat_sessions', s) = get_chat_history(chat_sessions, s)
              /\ s \in DOMAIN chat_sessions' <=> s \in DOMAIN chat_sessions
       /\ response'.op = "clear" =>
              get_chat_history(chat_sessions', response'.session_id) = <<>>
       /\ (response.op = "clear" /\ response'.op = "history"
             /\ response'.session_id = response.session_id) =>
              response'.messages = <<>>
       /\ (response'.op = "history" /\ appended[response'.session_id] = <<>>) =>
              /\ response'.messages = <<>>
              /\ response'.session_id \notin DOMAIN chat_sessions']_vars

\* a session that an ask had appended to was cleared while the other session
\* keeps its ten turns
C17_Witness ==
    /\ response.op = "clear"
    /\ Len(answered) = 1
    /\ answered[1].session_id = response.session_id
    /\ response.session_id \notin DOMAIN chat_sessions
    /\ \E s \in DOMAIN chat_sessions : Len(chat_sessions[s]) = 10

\* an ask is in progress: chat_with_rag was entered and has not returned, so
\* it is in or between its calls of the model service and the vector store
AskInProgress == request.kind = "chat"

\* C14: while an ask for one session is in progress (waiting on an embedding,
\* query or completion call), the server can start an ask for any other
\* session.
C14_OtherSessionNotBlocked ==
    (AskInProgress /\ handled < MaxRequests) =>
        \A session_id \in SessionIds \ {request.session_id} :
            \A message \in Messages : ENABLED ChatStart(message, session_id)

\* the state right after an ask returned a ChatResponse, when the request
\* just before it was an ask on the same session that returned a ChatResponse
\* and had found a history of n turns
AfterTwoAsks(n) ==
    /\ response.op = "chat"
    /\ response.status = 200
    /\ Len(answered) >= 2
    /\ answered[Len(answered)].session_id = response.session_id
    /\ answered[Len(answered) - 1].session_id = response.session_id
    /\ answered[Len(answered)].call = answered[Len(answered) - 1].call + 1
    /\ answered[Len(answered) - 1].turns_before = n

\* C12: two sequential successful asks on a session whose history was empty
\* leave exactly 4 turns: user (message of the first ask), assistant
\* (response returned by the first ask), user (message of the second),
\* assistant (response returned by the second).
C12_TwoAsksFourTurns ==
    AfterTwoAsks(0) =>
        LET first == answered[Len(answered) - 1]
            second == answered[Len(answered)]
        IN  /\ second.response = response.response
            /\ second.message = response.message
            /\ get_chat_history(chat_sessions, response.session_id)
                 = <<[role |-> "user", content |-> first.message],
                     [role |-> "assistant", content |-> first.response],
                     [role |-> "user", content |-> second.message],
                     [role |-> "assistant", content |-> second.response]>>

\* two asks with different messages and different answers
C12_Witness ==
    /\ AfterTwoAsks(0)
    /\ answered[1].message # answered[2].message
    /\ answered[1].response # answered[2].response
    /\ Len(response.history_before) = 2

(***************************************************************************)
(* PDFProcessor.chunk_text, one page per step                              *)
(***************************************************************************)

\* lines 35-39
ChunkStart ==
    /\ chunker_pc = "call"
    /\ pages' = SplitPages(text)
    /\ page_idx' = 0
    /\ chunks' = <<>>
    /\ chunker_pc' = "loop"
    /\ UNCHANGED <<text, filename, chunk_size, client, service_vars>>

\* lines 41-79, one iteration
ChunkPage ==
    /\ chunker_pc = "loop"
    /\ page_idx < Len(pages)
    /\ LET r == ChunkPageBody(chunks, page_idx, pages[page_idx + 1], filename, chunk_size)
       IN  /\ ~r.raised
           /\ chunks' = r.chunks
    /\ page_idx' = page_idx + 1
    /\ UNCHANGED <<text, filename, chunk_size, pages, chunker_pc, client, service_vars>>

\* line 66 with chunk_size // 10 = 0: range() raises ValueError
ChunkRaise ==
    /\ chunker_pc = "loop"
    /\ page_idx < Len(pages)
    /\ ChunkPageBody(chunks, page_idx, pages[page_idx + 1], filename, chunk_size).raised
    /\ chunker_pc' = "raised"
    /\ UNCHANGED <<text, filename, chunk_size, pages, page_idx, chunks, client, service_vars>>

\* line 81
ChunkReturn ==
    /\ chunker_pc = "loop"
    /\ page_idx = Len(pages)
    /\ chunker_pc' = "returned"
    /\ UNCHANGED <<text, filename, chunk_size, pages, page_idx, chunks, client, service_vars>>

InitChunk ==
    /\ text \in Texts
    /\ filename \in {<<"a", ".", "p", "d", "f">>}
    /\ chunk_size \in ChunkSizes
    /\ pages = <<>>
    /\ page_idx = 0
    /\ chunks = <<>>
    /\ chunker_pc = "call"
    /\ client = IdleClient
    /\ ServiceIdle

NextChunk == ChunkStart \/ ChunkPage \/ ChunkRaise \/ ChunkReturn

SpecChunk == InitChunk /\ [][NextChunk]_vars


(***************************************************************************)
(* Properties of chunk_text                                                *)
(***************************************************************************)

\* C8: every chunk emitted by the Chunker has non-empty content and a
\* filename metadata field, for every input text, an empty page included.
C8_ChunksNonEmpty ==
    \A i \in DOMAIN chunks :
        /\ chunks[i].content # <<>>
        /\ "filename" \in DOMAIN chunks[i].metadata

\* the indices of the page segments that the loop does not skip
NonBlankPages == {i \in DOMAIN pages : Strip(pages[i]) # <<>>}

C10_ChunkIdsContiguous ==
    \A i \in DOMAIN chunks : chunks[i].metadata.chunk_id = i - 1

C10_Witness ==
    /\ chunker_pc = "returned"
    /\ Len(chunks) >= 4
    /\ \E i, j \in DOMAIN chunks :
           /\ i < j
           /\ "sub_chunk" \in DOMAIN chunks[i].metadata
           /\ chunks[i].metadata.sub_chunk >= 1
           /\ chunks[i].metadata.page # chunks[j].metadata.page

\* the pages whose markers occur in the input texts
MarkedPages == {1, 2}

\* the marker of page n as it stands in the text after clean_text
CleanMarker(n) == Strip(PageMarker(n))

\* the cleaned text with every page marker replaced by a space: the page
\* bodies of the text
RECURSIVE WithoutMarkers(_)
WithoutMarkers(s) ==
    LET hits == {i \in 1..Len(s) : \E n \in MarkedPages : MatchAt(s, CleanMarker(n), i)}
    IN  IF hits = {} THEN s
        ELSE LET i == CHOOSE h \in hits : \A j \in hits : h <= j
                 n == CHOOSE m \in MarkedPages : MatchAt(s, CleanMarker(m), i)
             IN  Take(s, i - 1) \o <<" ">>
                 \o WithoutMarkers(Drop(s, i + Len(CleanMarker(n)) - 1))

\* the words of the chunk contents, in emission order
RECURSIVE ChunkWords(_)
ChunkWords(cs) ==
    IF cs = <<>> THEN <<>> ELSE SplitWords(cs[1].content) \o ChunkWords(Tail(cs))

\* C11: when chunk_text returns, the words of the chunk contents, in order,
\* are the words of the page bodies of the text, in order: only page markers
\* and whitespace are dropped.
C11_NoTextLost ==
    chunker_pc = "returned" =>
        ChunkWords(chunks) = SplitWords(WithoutMarkers(clean_text(text)))

\* the header that the marker of page n leaves at the start of a segment
\* once the text is split on '--- Page'
MarkerHeader(n) == <<" ">> \o ToStr(n) \o <<" ">> \o DASHES

\* the N of the marker '--- Page N ---' that heads the segment, 0 if none does
MarkerPage(idx, content) ==
    IF idx >= 1 /\ \E n \in MarkedPages : MatchAt(content, MarkerHeader(n), 1)
    THEN CHOOSE n \in MarkedPages : MatchAt(content, MarkerHeader(n), 1)
    ELSE 0

\* the text before the first '---' of the segment is not an integer
HeaderUnparseable(content) ==
    \/ ~Contains(content, DASHES)
    \/ ~ParseInt(Split(content, DASHES)[1]).ok

\* C15: every chunk emitted from a segment headed by the marker of page N
\* carries metadata.page = N; every chunk emitted from a segment whose header
\* cannot be parsed carries the positional index of the segment.
C15_PageIsMarkerNumber ==
    [][(chunker_pc = "loop" /\ page_idx' = page_idx + 1) =>
          LET content == pages[page_idx + 1]
              n == MarkerPage(page_idx, content)
              emitted == (Len(chunks) + 1)..Len(chunks')
          IN  /\ n # 0 => \A i \in emitted : chunks'[i].metadata.page = n
              /\ HeaderUnparseable(content) =>
                     \A i \in emitted : chunks'[i].metadata.page = page_idx]_vars

=============================================================================
